---------------------------- MODULE Spec2Model ----------------------------
(***************************************************************************)
(* Model of src/index.tsx: the orientation-driven clock widget.           *)
(*                                                                         *)
(* The page is a single DOMContentLoaded handler that wires four panels   *)
(* (alarm, timer, stopwatch, weather).  The state is the handler's        *)
(* closure variables, the DOM properties the handlers read and write, and *)
(* the host's table of live scheduled callbacks (setTimeout/setInterval). *)
(* Every event-loop turn (a click, a fired callback, an orientation       *)
(* notification) is one action.                                           *)
(*                                                                         *)
(* The markup (index.html) is not part of the sources; the elements the   *)
(* script looks up by id are taken to exist, and their initial attributes *)
(* are gathered in HtmlDefaults below.                                     *)
(***************************************************************************)
EXTENDS Integers, Sequences, FiniteSets, TLC

VARIABLES
  \* ---- page / view router -------------------------------------------
  pc,                   \* "loading" | "ready" | "crashed" (DOMContentLoaded handler)
  screenOrientation,    \* platform: "full" | "noEvents" | "absent" (screen.orientation)
  orientation,          \* platform: the current orientation reading
  hidden,               \* set of panels whose classList holds 'hidden'
  themeColor,           \* meta[name=theme-color]: the panel whose colour it shows
  listener,             \* which orientation notification source is registered
  pendingChange,        \* an orientation notification is queued for the handler
  routedFor,            \* the reading the last handleOrientationChange run saw
  \* ---- host scheduler ------------------------------------------------
  timers,               \* live scheduled callbacks: [id, fn, delay]
  nextId,               \* next handle the host hands out (never reused)
  clock,                \* Date.now()
  \* ---- alarm ---------------------------------------------------------
  alarmTimeoutId,       \* 0 stands for undefined
  alarmTimeInputValue,
  alarmTimeInputDisabled,
  setAlarmBtnDisabled,
  clearAlarmBtnDisabled,
  clearAlarmBtnText,
  alarmStatus,          \* [text, at]: alarmStatusEl.textContent
  alarmSound,           \* [paused, loop, rewound]
  alarming,             \* #alarm carries class 'alarming'
  \* ---- countdown timer -----------------------------------------------
  timerIntervalId,      \* 0 stands for undefined
  secondsRemaining,
  isPaused,
  timerDisplay,         \* [minutes, seconds]: the two fields of timerDisplay.textContent
  minutesInputValue,
  secondsInputValue,
  timerInputsDisabled,  \* minutesInput.disabled and secondsInput.disabled (set together)
  startTimerBtnDisabled,
  pauseTimerBtnDisabled,
  pauseTimerBtnText,
  resetTimerBtnDisabled,
  timerSound,           \* [paused, loop, rewound]
  timerFinished,        \* #timer carries class 'timer-finished'
  \* ---- stopwatch -----------------------------------------------------
  stopwatchIntervalId,  \* 0 stands for undefined
  startTime,
  elapsedTime,
  isRunning,
  lapCounter,
  lapsList,             \* the <li> entries, first child first: [n, t]
  stopwatchDisplay,     \* the elapsed time the display was last refreshed with
  primaryBtnText,
  primaryBtnRunning,    \* primaryBtn carries class 'running'
  secondaryBtnText,
  secondaryBtnDisabled,
  \* ---- weather -------------------------------------------------------
  geoSupported,         \* platform: 'geolocation' in navigator
  weatherLoaded,        \* #weather carries data-loaded="true"
  observedVisible,      \* isIntersecting of the last observer entry: "none" | "yes" | "no"
  geoPending,           \* getCurrentPosition requests not yet answered
  fetchPending,         \* fetch requests not yet settled
  weatherStatus,        \* weatherStatusEl.textContent
  weatherStatusHidden,
  weatherCardHidden,
  \* ---- formatTime applied to a drawn duration ---------------------------
  fmtIn,
  fmtOut,
  \* ---- history -------------------------------------------------------
  sequencesStarted,     \* location-request-plus-fetch sequences started so far
  lastOp,               \* the handler that ran last: [op, from, now]
  timerRun              \* since the last successful start: [total, ticks, disturbed]

routerVars == <<pc, screenOrientation, orientation, hidden, themeColor,
                listener, pendingChange, routedFor>>
hostVars   == <<timers, nextId, clock>>
alarmVars  == <<alarmTimeoutId, alarmTimeInputValue, alarmTimeInputDisabled,
                setAlarmBtnDisabled, clearAlarmBtnDisabled, clearAlarmBtnText,
                alarmStatus, alarmSound, alarming>>
timerVars  == <<timerIntervalId, secondsRemaining, isPaused, timerDisplay,
                minutesInputValue, secondsInputValue, timerInputsDisabled,
                startTimerBtnDisabled, pauseTimerBtnDisabled, pauseTimerBtnText,
                resetTimerBtnDisabled, timerSound, timerFinished>>
swVars     == <<stopwatchIntervalId, startTime, elapsedTime, isRunning,
                lapCounter, lapsList, stopwatchDisplay, primaryBtnText,
                primaryBtnRunning, secondaryBtnText, secondaryBtnDisabled>>
weatherVars == <<geoSupported, weatherLoaded, observedVisible, geoPending,
                 fetchPending, weatherStatus, weatherStatusHidden,
                 weatherCardHidden, sequencesStarted>>
fmtVars    == <<fmtIn, fmtOut>>
otherVars  == <<weatherVars, fmtVars>>
histVars   == <<lastOp, timerRun>>
vars == <<routerVars, hostVars, alarmVars, timerVars, swVars, weatherVars,
          fmtVars, histVars>>

----------------------------------------------------------------------------
(* Bounds of the model *)

\* handles the host hands out before the model stops scheduling
MaxHandles == 4

\* the clock stops advancing here
MaxClock == 2400

\* laps recorded before the model stops recording
MaxLaps == 3

\* location requests started before the model stops starting them
MaxSequences == 3

\* formatTime is applied to the multiples of 36997 ms up to this multiple
MaxFmtIndex == 110

----------------------------------------------------------------------------
(* View router: index.tsx 43-110 *)

Panels == {"alarm", "timer", "stopwatch", "weather"}

Orientations == {"portrait-primary", "portrait-secondary",
                 "landscape-primary", "landscape-secondary", "other"}

\* the switch of handleOrientationChange
ViewForSwapped(o) ==
  CASE o = "portrait-primary"    -> "alarm"
    [] o = "portrait-secondary"  -> "timer"
    [] o = "landscape-secondary" -> "weather"
    [] o = "landscape-primary"   -> "stopwatch"
    [] OTHER                     -> "alarm"

ViewFor(o) ==
  CASE o = "portrait-primary"    -> "alarm"
    [] o = "portrait-secondary"  -> "timer"
    [] o = "landscape-secondary" -> "stopwatch"
    [] o = "landscape-primary"   -> "weather"
    [] OTHER                     -> "alarm"

\* updateVisibleView: the classList 'hidden' of every panel after the call
HiddenAfterNoHide(h, key) == h \ {key}

HiddenAfter(h, key) == (h \cup Panels) \ {key}

\* handleOrientationChange: reads screen.orientation.type and routes
HandleOrientationChange ==
  /\ hidden' = HiddenAfter(hidden, ViewFor(orientation))
  /\ themeColor' = ViewFor(orientation)
  /\ routedFor' = orientation

----------------------------------------------------------------------------
(* Strings.  A text value is a sequence of one-character strings, so that  *)
(* parseInt and split work on it as they do in the script.                 *)

Digits == {"0", "1", "2", "3", "4", "5", "6", "7", "8", "9"}

DigitVal(c) ==
  CASE c = "0" -> 0 [] c = "1" -> 1 [] c = "2" -> 2 [] c = "3" -> 3
    [] c = "4" -> 4 [] c = "5" -> 5 [] c = "6" -> 6 [] c = "7" -> 7
    [] c = "8" -> 8 [] c = "9" -> 9

RECURSIVE SkipSpaces(_, _)
SkipSpaces(s, i) ==
  IF i <= Len(s) /\ s[i] = " " THEN SkipSpaces(s, i + 1) ELSE i

RECURSIVE DigitsPrefix(_, _, _)
DigitsPrefix(s, i, acc) ==
  IF i > Len(s) \/ s[i] \notin Digits
    THEN acc
    ELSE DigitsPrefix(s, i + 1, acc * 10 + DigitVal(s[i]))

\* parseInt(s, 10): leading blanks, an optional sign, the longest digit prefix;
\* NaN when there is no digit.  The value undefined is passed as "undefined".
ParseInt(s) ==
  LET i     == SkipSpaces(s, 1)
      neg   == i <= Len(s) /\ s[i] = "-"
      start == IF i <= Len(s) /\ s[i] \in {"-", "+"} THEN i + 1 ELSE i
  IN  IF start > Len(s) \/ s[start] \notin Digits
        THEN [nan |-> TRUE, val |-> 0]
        ELSE [nan |-> FALSE,
              val |-> (IF neg THEN -1 ELSE 1) * DigitsPrefix(s, start, 0)]

\* x || 0 on a number: NaN and 0 are falsy
OrZero(p) == IF p.nan \/ p.val = 0 THEN 0 ELSE p.val

\* s.split(':')
RECURSIVE SplitFrom(_, _, _)
SplitFrom(s, i, piece) ==
  IF i > Len(s) THEN <<piece>>
  ELSE IF s[i] = ":" THEN <<piece>> \o SplitFrom(s, i + 1, <<>>)
  ELSE SplitFrom(s, i + 1, Append(piece, s[i]))

SplitColon(s) == SplitFrom(s, 1, <<>>)

Undefined == <<"u", "n", "d", "e", "f", "i", "n", "e", "d">>

----------------------------------------------------------------------------
(* The two <audio> elements: [paused, loop, rewound].  rewound says that  *)
(* currentTime is 0; playing moves the position off the start.            *)

\* snd.play(): the rejection of the returned promise is only logged
Play(snd) == [snd EXCEPT !.paused = FALSE, !.rewound = FALSE]

PauseNot(snd) == snd

\* snd.pause()
Pause(snd) == [snd EXCEPT !.paused = TRUE]

RewindNot(snd) == snd

\* snd.currentTime = 0
Rewind(snd) == [snd EXCEPT !.rewound = TRUE]

\* snd.loop = b
SetLoop(snd, b) == [snd EXCEPT !.loop = b]

----------------------------------------------------------------------------
(* Alarm: index.tsx 112-206 *)

MsPerMinute == 60000
MsPerHour   == 3600000
MsPerDay    == 86400000

\* alarmTime.getTime() - now.getTime(), both on the local day of `now`;
\* nowTod is the time of day of `now` in ms.  NaN when the value does not parse.
RawTimeToAlarm(timeValue, nowTod) ==
  LET parts   == SplitColon(timeValue)
      hours   == ParseInt(parts[1])
      minutes == ParseInt(IF Len(parts) >= 2 THEN parts[2] ELSE Undefined)
  IN  IF hours.nan \/ minutes.nan
        THEN [nan |-> TRUE, val |-> 0]
        ELSE [nan |-> FALSE,
              val |-> hours.val * MsPerHour + minutes.val * MsPerMinute - nowTod]

\* timeToAlarm of setAlarm after the wrap-forward (lines 162-165)
TimeToAlarm(timeValue, nowTod) ==
  LET raw == RawTimeToAlarm(timeValue, nowTod)
  IN  IF raw.nan THEN raw
      ELSE IF raw.val < 0 THEN [raw EXCEPT !.val = raw.val + 24 * 60 * 60 * 1000]
      ELSE raw

\* the delay the host uses for setTimeout(fn, d): NaN counts as 0
TimeoutDelay(d) == IF d.nan \/ d.val < 0 THEN 0 ELSE d.val

\* the minute of the day toLocaleTimeString shows for now + timeToAlarm
AlarmShownMinute(d, nowTod) ==
  IF d.nan THEN -1 ELSE ((nowTod + d.val) % MsPerDay) \div MsPerMinute

Status(text) == [text |-> text, at |-> 0]

\* the alarm's state as section 4.2 of the design names it
AlarmPhase ==
  IF alarming THEN "Ringing"
  ELSE IF \E t \in timers : t.fn = "triggerAlarm" THEN "Armed"
  ELSE "Idle"

Op(name, from, now) == [op |-> name, from |-> from, now |-> now]

\* triggerAlarm, run by the host when the one-shot t is due
TriggerAlarm(t) ==
  /\ pc = "ready"
  /\ t \in timers /\ t.fn = "triggerAlarm"
  /\ timers' = timers \ {t}
  /\ alarmSound' = Play(SetLoop(alarmSound, TRUE))
  /\ alarmStatus' = Status("Wake up!")
  /\ alarming' = TRUE
  /\ clearAlarmBtnText' = "Stop Alarm"
  /\ lastOp' = Op("triggerAlarm", AlarmPhase, 0)
  /\ UNCHANGED <<alarmTimeoutId, alarmTimeInputValue, alarmTimeInputDisabled,
                 setAlarmBtnDisabled, clearAlarmBtnDisabled>>
  /\ UNCHANGED <<nextId, clock, timerRun, routerVars, timerVars, swVars, otherVars>>

\* setAlarm, with `now` read at time of day nowTod
SetAlarm(nowTod) ==
  /\ pc = "ready"
  /\ IF alarmTimeInputValue = <<>>
       THEN /\ alarmStatus' = Status("Please select a valid time.")
            /\ UNCHANGED <<timers, nextId, alarmTimeoutId, setAlarmBtnDisabled,
                           clearAlarmBtnDisabled, alarmTimeInputDisabled>>
       ELSE LET d == TimeToAlarm(alarmTimeInputValue, nowTod)
            IN  /\ nextId <= MaxHandles
                /\ timers' = timers \cup {[id |-> nextId, fn |-> "triggerAlarm",
                                           delay |-> TimeoutDelay(d)]}
                /\ nextId' = nextId + 1
                /\ alarmTimeoutId' = nextId
                /\ alarmStatus' = [text |-> "Alarm set for",
                                   at |-> AlarmShownMinute(d, nowTod)]
                /\ setAlarmBtnDisabled' = TRUE
                /\ clearAlarmBtnDisabled' = FALSE
                /\ alarmTimeInputDisabled' = TRUE
  /\ lastOp' = Op("setAlarm", AlarmPhase, nowTod)
  /\ UNCHANGED <<alarmTimeInputValue, clearAlarmBtnText, alarmSound, alarming>>
  /\ UNCHANGED <<clock, timerRun, routerVars, timerVars, swVars, otherVars>>

CancelNothing(ts, id) == ts

\* clearTimeout / clearInterval: an id that is not live (or undefined) is ignored
Cancel(ts, id) == {t \in ts : t.id # id}

ClearTimeoutNot(ts, id) == ts

\* clearTimeout(id)
ClearTimeout(ts, id) == Cancel(ts, id)

ClearIntervalNot(ts, id) == ts

\* clearInterval(id)
ClearInterval(ts, id) == Cancel(ts, id)

\* clearAlarm
ClearAlarm ==
  /\ pc = "ready"
  /\ nextId <= MaxHandles
  /\ timers' = ClearTimeout(timers, alarmTimeoutId)
                  \cup {[id |-> nextId, fn |-> "clearStatus", delay |-> 2000]}
  /\ nextId' = nextId + 1
  /\ alarmTimeoutId' = 0
  /\ alarmSound' = SetLoop(Rewind(Pause(alarmSound)), FALSE)
  /\ alarmStatus' = Status("Alarm cleared.")
  /\ setAlarmBtnDisabled' = FALSE
  /\ clearAlarmBtnDisabled' = TRUE
  /\ clearAlarmBtnText' = "Clear Alarm"
  /\ alarmTimeInputDisabled' = FALSE
  /\ alarmTimeInputValue' = <<>>
  /\ alarming' = FALSE
  /\ lastOp' = Op("clearAlarm", AlarmPhase, 0)
  /\ UNCHANGED <<clock, timerRun, routerVars, timerVars, swVars, otherVars>>

\* the anonymous callback clearAlarm schedules (lines 188-192)
ClearStatus(t) ==
  /\ pc = "ready"
  /\ t \in timers /\ t.fn = "clearStatus"
  /\ timers' = timers \ {t}
  /\ alarmStatus' = IF alarmStatus.text = "Alarm cleared."
                      THEN Status("") ELSE alarmStatus
  /\ lastOp' = Op("clearStatus", AlarmPhase, 0)
  /\ UNCHANGED <<alarmTimeoutId, alarmTimeInputValue, alarmTimeInputDisabled,
                 setAlarmBtnDisabled, clearAlarmBtnDisabled, clearAlarmBtnText,
                 alarmSound, alarming>>
  /\ UNCHANGED <<nextId, clock, timerRun, routerVars, timerVars, swVars, otherVars>>

----------------------------------------------------------------------------
(* Countdown timer: index.tsx 209-300 *)

\* a % b of the script: the sign follows the dividend
JsRem(a, b) == IF a >= 0 THEN a % b ELSE -((-a) % b)

\* the two numbers updateTimerDisplay renders
TimerDisplayOf(secs) == [minutes |-> secs \div 60, seconds |-> JsRem(secs, 60)]

\* the timer's state as section 4.3 of the design names it
TimerPhase ==
  IF timerFinished THEN "Finished"
  ELSE IF isPaused THEN "Paused"
  ELSE IF \E t \in timers : t.fn = "tick" THEN "Running"
  ELSE "Idle"

TotalSeconds(minutesValue, secondsValue) ==
  OrZero(ParseInt(minutesValue)) * 60 + OrZero(ParseInt(secondsValue))

RejectsTotalBelowZero(totalSeconds) == totalSeconds < 0

\* the early return of startTimer (line 233)
RejectsTotal(totalSeconds) == totalSeconds <= 0

TimerDoneBelowZero(secs) == secs < 0

\* the test of tick that ends the countdown (line 287)
TimerDone(secs) == secs <= 0

\* startTimer
StartTimer ==
  /\ pc = "ready"
  /\ LET totalSeconds == TotalSeconds(minutesInputValue, secondsInputValue)
     IN  IF RejectsTotal(totalSeconds)
           THEN UNCHANGED <<timers, nextId, timerVars, timerRun>>
           ELSE /\ nextId <= MaxHandles
                /\ secondsRemaining' = totalSeconds
                /\ timerDisplay' = TimerDisplayOf(totalSeconds)
                /\ timers' = timers \cup {[id |-> nextId, fn |-> "tick",
                                           delay |-> 1000]}
                /\ nextId' = nextId + 1
                /\ timerIntervalId' = nextId
                /\ isPaused' = FALSE
                /\ startTimerBtnDisabled' = TRUE
                /\ pauseTimerBtnDisabled' = FALSE
                /\ pauseTimerBtnText' = "Pause"
                /\ resetTimerBtnDisabled' = FALSE
                /\ timerInputsDisabled' = TRUE
                /\ timerRun' = [total |-> totalSeconds, ticks |-> 0,
                                disturbed |-> FALSE]
                /\ UNCHANGED <<minutesInputValue, secondsInputValue,
                               timerSound, timerFinished>>
  /\ lastOp' = Op("startTimer", TimerPhase, 0)
  /\ UNCHANGED <<clock, routerVars, alarmVars, swVars, otherVars>>

\* pauseTimer
PauseTimer ==
  /\ pc = "ready"
  /\ IF isPaused
       THEN /\ nextId <= MaxHandles
            /\ timers' = timers \cup {[id |-> nextId, fn |-> "tick",
                                       delay |-> 1000]}
            /\ nextId' = nextId + 1
            /\ timerIntervalId' = nextId
            /\ isPaused' = FALSE
            /\ pauseTimerBtnText' = "Pause"
       ELSE /\ timers' = ClearInterval(timers, timerIntervalId)
            /\ isPaused' = TRUE
            /\ pauseTimerBtnText' = "Resume"
            /\ UNCHANGED <<nextId, timerIntervalId>>
  /\ timerRun' = [timerRun EXCEPT !.disturbed = TRUE]
  /\ lastOp' = Op("pauseTimer", TimerPhase, 0)
  /\ UNCHANGED <<secondsRemaining, timerDisplay, minutesInputValue,
                 secondsInputValue, timerInputsDisabled, startTimerBtnDisabled,
                 pauseTimerBtnDisabled, resetTimerBtnDisabled, timerSound,
                 timerFinished>>
  /\ UNCHANGED <<clock, routerVars, alarmVars, swVars, otherVars>>

\* resetTimer
ResetTimer ==
  /\ pc = "ready"
  /\ timers' = ClearInterval(timers, timerIntervalId)
  /\ timerIntervalId' = 0
  /\ secondsRemaining' = 0
  /\ isPaused' = FALSE
  /\ timerDisplay' = TimerDisplayOf(0)
  /\ timerSound' = Rewind(Pause(timerSound))
  /\ timerFinished' = FALSE
  /\ startTimerBtnDisabled' = FALSE
  /\ pauseTimerBtnDisabled' = TRUE
  /\ pauseTimerBtnText' = "Pause"
  /\ resetTimerBtnDisabled' = TRUE
  /\ timerInputsDisabled' = FALSE
  /\ minutesInputValue' = <<>>
  /\ secondsInputValue' = <<>>
  /\ timerRun' = [timerRun EXCEPT !.disturbed = TRUE]
  /\ lastOp' = Op("resetTimer", TimerPhase, 0)
  /\ UNCHANGED <<nextId, clock, routerVars, alarmVars, swVars, otherVars>>

\* tick, run by the host each time the interval t is due
Tick(t) ==
  /\ pc = "ready"
  /\ t \in timers /\ t.fn = "tick"
  /\ secondsRemaining' = secondsRemaining - 1
  /\ timerDisplay' = TimerDisplayOf(secondsRemaining - 1)
  /\ IF TimerDone(secondsRemaining - 1)
       THEN /\ timers' = ClearInterval(timers, timerIntervalId)
            /\ timerSound' = Play(SetLoop(timerSound, TRUE))
            /\ timerFinished' = TRUE
       ELSE UNCHANGED <<timers, timerSound, timerFinished>>
  /\ timerRun' = [timerRun EXCEPT !.ticks = @ + 1]
  /\ lastOp' = Op("tick", TimerPhase, 0)
  /\ UNCHANGED <<timerIntervalId, isPaused, minutesInputValue, secondsInputValue,
                 timerInputsDisabled, startTimerBtnDisabled, pauseTimerBtnDisabled,
                 pauseTimerBtnText, resetTimerBtnDisabled>>
  /\ UNCHANGED <<nextId, clock, routerVars, alarmVars, swVars, otherVars>>

----------------------------------------------------------------------------
(* Stopwatch: index.tsx 302-374 *)

\* n.toString() for an integer n
RECURSIVE NatStr(_)
NatStr(n) ==
  IF n < 10
    THEN <<CHOOSE c \in Digits : DigitVal(c) = n>>
    ELSE Append(NatStr(n \div 10), CHOOSE c \in Digits : DigitVal(c) = n % 10)

NumToString(n) == IF n < 0 THEN <<"-">> \o NatStr(-n) ELSE NatStr(n)

\* s.padStart(2, '0')
PadStart2(s) == IF Len(s) >= 2 THEN s ELSE IF Len(s) = 1 THEN <<"0">> \o s ELSE <<"0", "0">>

FormatTimeRounded(timeInMs) ==
  LET totalSeconds == timeInMs \div 1000
  IN  [hours        |-> PadStart2(NumToString(totalSeconds \div 3600)),
       minutes      |-> PadStart2(NumToString(JsRem(totalSeconds \div 60, 60))),
       seconds      |-> PadStart2(NumToString(JsRem(totalSeconds, 60))),
       milliseconds |-> PadStart2(NumToString((JsRem(timeInMs, 1000) + 5) \div 10))]

\* formatTime
FormatTime(timeInMs) ==
  LET totalSeconds == timeInMs \div 1000
  IN  [hours        |-> PadStart2(NumToString(totalSeconds \div 3600)),
       minutes      |-> PadStart2(NumToString(JsRem(totalSeconds \div 60, 60))),
       seconds      |-> PadStart2(NumToString(JsRem(totalSeconds, 60))),
       milliseconds |-> PadStart2(NumToString(JsRem(timeInMs, 1000) \div 10))]

\* what updateStopwatchDisplay writes, at Date.now() = now
CurrentElapsedTime(now) == elapsedTime + (IF isRunning THEN now - startTime ELSE 0)

\* updateStopwatchDisplay, run by the host each time the refresh interval t is due
UpdateStopwatchDisplay(t) ==
  /\ pc = "ready"
  /\ t \in timers /\ t.fn = "updateStopwatchDisplay"
  /\ stopwatchDisplay' = FormatTime(CurrentElapsedTime(clock))
  /\ lastOp' = Op("updateStopwatchDisplay", IF isRunning THEN "Running" ELSE "Stopped", clock)
  /\ UNCHANGED <<stopwatchIntervalId, startTime, elapsedTime, isRunning,
                 lapCounter, lapsList, primaryBtnText, primaryBtnRunning,
                 secondaryBtnText, secondaryBtnDisabled>>
  /\ UNCHANGED <<hostVars, timerRun, routerVars, alarmVars, timerVars, otherVars>>

AccumulatedLastRunOnly(acc, now, start) == now - start

\* elapsedTime += Date.now() - startTime (line 345)
Accumulated(acc, now, start) == acc + (now - start)

\* handlePrimaryClick
HandlePrimaryClick ==
  /\ pc = "ready"
  /\ isRunning' = ~isRunning
  /\ IF ~isRunning
       THEN /\ nextId <= MaxHandles
            /\ startTime' = clock
            /\ timers' = timers \cup {[id |-> nextId, fn |-> "updateStopwatchDisplay",
                                       delay |-> 10]}
            /\ nextId' = nextId + 1
            /\ stopwatchIntervalId' = nextId
            /\ primaryBtnText' = "Stop"
            /\ primaryBtnRunning' = TRUE
            /\ secondaryBtnText' = "Lap"
            /\ secondaryBtnDisabled' = FALSE
            /\ UNCHANGED elapsedTime
       ELSE /\ timers' = ClearInterval(timers, stopwatchIntervalId)
            /\ elapsedTime' = Accumulated(elapsedTime, clock, startTime)
            /\ primaryBtnText' = "Start"
            /\ primaryBtnRunning' = FALSE
            /\ secondaryBtnText' = "Reset"
            /\ UNCHANGED <<nextId, startTime, stopwatchIntervalId, secondaryBtnDisabled>>
  /\ lastOp' = Op("handlePrimaryClick", IF isRunning THEN "Running" ELSE "Stopped", clock)
  /\ UNCHANGED <<lapCounter, lapsList, stopwatchDisplay>>
  /\ UNCHANGED <<clock, timerRun, routerVars, alarmVars, timerVars, otherVars>>

AppendLast(list, li) == Append(list, li)

\* the list after lapsList.prepend(li)
Prepend(list, li) == <<li>> \o list

\* handleSecondaryClick
HandleSecondaryClick ==
  /\ pc = "ready"
  /\ IF isRunning
       THEN /\ lapsList' = Prepend(lapsList,
                              [n |-> lapCounter,
                               t |-> FormatTime(elapsedTime + (clock - startTime))])
            /\ lapCounter' = lapCounter + 1
            /\ UNCHANGED <<elapsedTime, startTime, stopwatchDisplay,
                           secondaryBtnDisabled>>
       ELSE /\ elapsedTime' = 0
            /\ startTime' = 0
            /\ lapCounter' = 1
            /\ lapsList' = <<>>
            /\ stopwatchDisplay' = FormatTime(0)
            /\ secondaryBtnDisabled' = TRUE
  /\ lastOp' = Op("handleSecondaryClick", IF isRunning THEN "Running" ELSE "Stopped", clock)
  /\ UNCHANGED <<stopwatchIntervalId, isRunning, primaryBtnText,
                 primaryBtnRunning, secondaryBtnText>>
  /\ UNCHANGED <<hostVars, timerRun, routerVars, alarmVars, timerVars, otherVars>>

----------------------------------------------------------------------------
(* Weather: index.tsx 376-448 *)

WeatherFrame ==
  UNCHANGED <<routerVars, hostVars, alarmVars, timerVars, swVars, fmtVars,
              timerRun, geoSupported>>

\* getWeather: returns at once when data-loaded is "true"; otherwise asks
\* for the position (or reports that it cannot)
GetWeather ==
  IF weatherLoaded
    THEN UNCHANGED <<geoPending, weatherStatus, sequencesStarted>>
    ELSE IF geoSupported
      THEN /\ sequencesStarted < MaxSequences
           /\ weatherStatus' = "Requesting location..."
           /\ geoPending' = geoPending + 1
           /\ sequencesStarted' = sequencesStarted + 1
      ELSE /\ weatherStatus' = "Geolocation is not supported by your browser."
           /\ UNCHANGED <<geoPending, sequencesStarted>>

\* the IntersectionObserver callback: one entry for #weather, delivered when
\* its visibility differs from the last entry (the first entry follows
\* observe())
IntersectionEvent ==
  /\ pc = "ready"
  /\ LET now == IF "weather" \in hidden THEN "no" ELSE "yes"
     IN  /\ observedVisible # now
         /\ observedVisible' = now
         /\ IF now = "yes"
              THEN GetWeather
              ELSE UNCHANGED <<geoPending, weatherStatus, sequencesStarted>>
  /\ lastOp' = Op("intersection", "", 0)
  /\ UNCHANGED <<weatherLoaded, fetchPending, weatherStatusHidden, weatherCardHidden>>
  /\ WeatherFrame

\* the success callback of getCurrentPosition: fetchWeather up to its first await
GeoSuccess ==
  /\ pc = "ready"
  /\ geoPending > 0
  /\ geoPending' = geoPending - 1
  /\ weatherStatus' = "Loading weather..."
  /\ weatherStatusHidden' = FALSE
  /\ weatherCardHidden' = TRUE
  /\ fetchPending' = fetchPending + 1
  /\ lastOp' = Op("fetchWeather", "", 0)
  /\ UNCHANGED <<weatherLoaded, observedVisible, sequencesStarted>>
  /\ WeatherFrame

\* the error callback of getCurrentPosition
GeoError ==
  /\ pc = "ready"
  /\ geoPending > 0
  /\ geoPending' = geoPending - 1
  /\ weatherStatus' = "Error: location"
  /\ lastOp' = Op("geoError", "", 0)
  /\ UNCHANGED <<weatherLoaded, observedVisible, fetchPending,
                 weatherStatusHidden, weatherCardHidden, sequencesStarted>>
  /\ WeatherFrame

\* fetchWeather after the response arrived ok and parsed: updateWeatherUI,
\* then data-loaded
FetchSuccess ==
  /\ pc = "ready"
  /\ fetchPending > 0
  /\ fetchPending' = fetchPending - 1
  /\ weatherStatusHidden' = TRUE
  /\ weatherCardHidden' = FALSE
  /\ weatherLoaded' = TRUE
  /\ lastOp' = Op("fetchSuccess", "", 0)
  /\ UNCHANGED <<observedVisible, geoPending, weatherStatus, sequencesStarted>>
  /\ WeatherFrame

\* fetchWeather's catch: network error, status not ok, or a body that
\* does not parse
FetchFailure ==
  /\ pc = "ready"
  /\ fetchPending > 0
  /\ fetchPending' = fetchPending - 1
  /\ weatherStatus' = "Error: weather"
  /\ lastOp' = Op("fetchFailure", "", 0)
  /\ UNCHANGED <<weatherLoaded, observedVisible, geoPending,
                 weatherStatusHidden, weatherCardHidden, sequencesStarted>>
  /\ WeatherFrame

----------------------------------------------------------------------------
(* The environment: what the user types, the device's rotation, the clock *)

\* values of the <input type="time">: "" or HH:MM
AlarmTimeValues == {<<"0", "7", ":", "3", "0">>, <<"0", "0", ":", "0", "0">>,
                    <<"2", "3", ":", "5", "9">>}

\* times of day (ms after local midnight) at which setAlarm reads the clock:
\* 00:00:00.000, 07:00, 07:29:59.999, 07:30:00.000, 07:30:00.001, 08:00,
\* 23:59:00.000, 23:59:59.999
NowSamples == {0, 25200000, 26999999, 27000000, 27000001, 28800000,
               86340000, 86399999}

\* minutes*60+seconds of the pairs: 0 ("" or "x" with "" or "0"), negative
\* ("-1" with "2"), 1 ("-1" with "61"), 3 ("3s"), 62 ("1" with "2")
MinutesFieldValues == {<<>>, <<"1">>, <<"-", "1">>, <<"x">>}
SecondsFieldValues == {<<>>, <<"0">>, <<"2">>, <<"6", "1">>, <<"3", "s">>}

ClockSteps == {400, 1000}

TypeAlarmTime(v) ==
  /\ ~alarmTimeInputDisabled
  /\ alarmTimeInputValue # v
  /\ alarmTimeInputValue' = v
  /\ lastOp' = Op("input", AlarmPhase, 0)
  /\ UNCHANGED <<alarmTimeoutId, alarmTimeInputDisabled, setAlarmBtnDisabled,
                 clearAlarmBtnDisabled, clearAlarmBtnText, alarmStatus,
                 alarmSound, alarming>>
  /\ UNCHANGED <<hostVars, timerRun, routerVars, timerVars, swVars, otherVars>>

TypeTimerFields(m, s) ==
  /\ ~timerInputsDisabled
  /\ <<minutesInputValue, secondsInputValue>> # <<m, s>>
  /\ minutesInputValue' = m
  /\ secondsInputValue' = s
  /\ lastOp' = Op("input", TimerPhase, 0)
  /\ UNCHANGED <<timerIntervalId, secondsRemaining, isPaused, timerDisplay,
                 timerInputsDisabled, startTimerBtnDisabled, pauseTimerBtnDisabled,
                 pauseTimerBtnText, resetTimerBtnDisabled, timerSound, timerFinished>>
  /\ UNCHANGED <<hostVars, timerRun, routerVars, alarmVars, swVars, otherVars>>

\* durations formatTime is applied to: a sweep through the first hour and
\* the carries (second, minute, hour, day, hundred hours)
FmtSamples ==
  {k * 36997 : k \in 0 .. MaxFmtIndex}
    \cup {9, 10, 999, 1000, 1999, 59999, 60000, 3599999, 3600000, 3661234,
          3661235, 86399999, 86400000, 90061010, 360000000}

\* formatTime(ms) called on a drawn duration
FormatTimeCall(ms) ==
  /\ fmtIn' = ms
  /\ fmtOut' = FormatTime(ms)
  /\ lastOp' = Op("formatTime", "", 0)
  /\ UNCHANGED <<routerVars, hostVars, alarmVars, timerVars, swVars,
                 weatherVars, timerRun>>

AdvanceClock(d) ==
  /\ clock + d <= MaxClock
  /\ clock' = clock + d
  /\ lastOp' = Op("clock", "", 0)
  /\ UNCHANGED <<timers, nextId, timerRun, routerVars, alarmVars, timerVars, swVars, otherVars>>

\* the device is turned: the platform queues a notification for the
\* registered source
Rotate(o) ==
  /\ o # orientation
  /\ orientation' = o
  /\ pendingChange' = (listener # "none")
  /\ lastOp' = Op("rotate", "", 0)
  /\ UNCHANGED <<pc, screenOrientation, hidden, themeColor, listener, routedFor>>
  /\ UNCHANGED <<hostVars, timerRun, alarmVars, timerVars, swVars, otherVars>>

OrientationEventStopsTimers ==
  /\ pc = "ready"
  /\ pendingChange
  /\ pendingChange' = FALSE
  /\ HandleOrientationChange
  /\ timers' = {}
  /\ lastOp' = Op("handleOrientationChange", "", 0)
  /\ UNCHANGED <<pc, screenOrientation, orientation, listener>>
  /\ UNCHANGED <<nextId, clock, timerRun, alarmVars, timerVars, swVars, otherVars>>

\* the notification is delivered: handleOrientationChange runs
OrientationEvent ==
  /\ pc = "ready"
  /\ pendingChange
  /\ pendingChange' = FALSE
  /\ HandleOrientationChange
  /\ lastOp' = Op("handleOrientationChange", "", 0)
  /\ UNCHANGED <<pc, screenOrientation, orientation, listener>>
  /\ UNCHANGED <<hostVars, timerRun, alarmVars, timerVars, swVars, otherVars>>

----------------------------------------------------------------------------
(* Page load: the DOMContentLoaded handler, index.tsx 6-449 *)

\* the attributes the markup gives the elements: the Idle defaults that
\* clearAlarm, resetTimer and the stopwatch reset restore
HtmlDefaults ==
  /\ alarmTimeInputValue = <<>> /\ alarmTimeInputDisabled = FALSE
  /\ setAlarmBtnDisabled = FALSE /\ clearAlarmBtnDisabled = TRUE
  /\ clearAlarmBtnText = "Clear Alarm"
  /\ alarmStatus = Status("")
  /\ alarmSound = [paused |-> TRUE, loop |-> FALSE, rewound |-> TRUE]
  /\ alarming = FALSE
  /\ timerDisplay = [minutes |-> 0, seconds |-> 0]
  /\ minutesInputValue = <<>> /\ secondsInputValue = <<>>
  /\ timerInputsDisabled = FALSE
  /\ startTimerBtnDisabled = FALSE /\ pauseTimerBtnDisabled = TRUE
  /\ pauseTimerBtnText = "Pause" /\ resetTimerBtnDisabled = TRUE
  /\ timerSound = [paused |-> TRUE, loop |-> FALSE, rewound |-> TRUE]
  /\ timerFinished = FALSE
  /\ lapsList = <<>>
  /\ stopwatchDisplay = [hours |-> <<"0", "0">>, minutes |-> <<"0", "0">>,
                         seconds |-> <<"0", "0">>, milliseconds |-> <<"0", "0">>]
  /\ primaryBtnText = "Start" /\ primaryBtnRunning = FALSE
  /\ secondaryBtnText = "Lap" /\ secondaryBtnDisabled = TRUE

\* the attributes the markup gives the weather panel: not loaded, the
\* status line shown and empty, the card hidden
HtmlWeatherDefaults ==
  /\ weatherLoaded = FALSE
  /\ weatherStatus = ""
  /\ weatherStatusHidden = FALSE
  /\ weatherCardHidden = TRUE

\* the closure variables as declared (lines 120, 218-220, 309-313)
ScriptInit ==
  /\ alarmTimeoutId = 0
  /\ timerIntervalId = 0 /\ secondsRemaining = 0 /\ isPaused = FALSE
  /\ stopwatchIntervalId = 0 /\ startTime = 0 /\ elapsedTime = 0
  /\ isRunning = FALSE /\ lapCounter = 1

Init ==
  /\ pc = "loading"
  /\ screenOrientation \in {"full", "noEvents", "absent"}
  /\ orientation \in Orientations
  /\ hidden \in SUBSET Panels
  /\ themeColor = "page"
  /\ listener = "none"
  /\ pendingChange = FALSE
  /\ routedFor = "none"
  /\ timers = {} /\ nextId = 1 /\ clock = 0
  /\ HtmlDefaults
  /\ HtmlWeatherDefaults
  /\ ScriptInit
  /\ geoSupported \in BOOLEAN
  /\ observedVisible = "none"
  /\ geoPending = 0 /\ fetchPending = 0
  /\ sequencesStarted = 0
  /\ fmtIn = 0 /\ fmtOut = <<>>
  /\ lastOp = Op("none", "", 0)
  /\ timerRun = [total |-> 0, ticks |-> 0, disturbed |-> TRUE]

\* the handler body: the first routing (line 101), the registration of the
\* notification source (105-110), then the wiring of the panels.  Reading
\* screen.orientation.type of an absent screen.orientation throws at line 78,
\* outside the try, and ends the handler there.
DOMContentLoaded ==
  /\ pc = "loading"
  /\ IF screenOrientation = "absent"
       THEN /\ pc' = "crashed"
            /\ UNCHANGED <<hidden, themeColor, routedFor, listener>>
       ELSE /\ pc' = "ready"
            /\ HandleOrientationChange
            /\ listener' = IF screenOrientation = "full"
                             THEN "change" ELSE "orientationchange"
  /\ lastOp' = Op("DOMContentLoaded", "", 0)
  /\ UNCHANGED <<screenOrientation, orientation, pendingChange>>
  /\ UNCHANGED <<hostVars, timerRun, alarmVars, timerVars, swVars, otherVars>>

----------------------------------------------------------------------------
(* Events.  A click reaches its handler only while the control is enabled. *)

ClickSetAlarm == ~setAlarmBtnDisabled /\ \E now \in NowSamples : SetAlarm(now)
ClickClearAlarm == ~clearAlarmBtnDisabled /\ ClearAlarm
AlarmDue == \E t \in timers : TriggerAlarm(t)
ClearStatusDue == \E t \in timers : ClearStatus(t)
EditAlarmTime == \E v \in AlarmTimeValues \cup {<<>>} : TypeAlarmTime(v)

ClickStartTimer == ~startTimerBtnDisabled /\ StartTimer
ClickPauseTimer == ~pauseTimerBtnDisabled /\ PauseTimer
ClickResetTimer == ~resetTimerBtnDisabled /\ ResetTimer
TickDue == \E t \in timers : Tick(t)
EditTimerFields ==
  \E m \in MinutesFieldValues, s \in SecondsFieldValues : TypeTimerFields(m, s)

ClickPrimary == HandlePrimaryClick
ClickSecondary ==
  /\ ~secondaryBtnDisabled
  /\ isRunning => Len(lapsList) < MaxLaps
  /\ HandleSecondaryClick
RefreshDue == \E t \in timers : UpdateStopwatchDisplay(t)
ClockAdvances == \E d \in ClockSteps : AdvanceClock(d)

DeviceTurns == \E o \in Orientations : Rotate(o)

\* the handlers called directly, whatever the controls' enablement
CallSetAlarm == \E now \in NowSamples : SetAlarm(now)
CallClearAlarm == ClearAlarm

----------------------------------------------------------------------------
(* Specifications *)

Next ==
  \/ DOMContentLoaded
  \/ DeviceTurns \/ OrientationEvent
  \/ EditAlarmTime \/ ClickSetAlarm \/ ClickClearAlarm \/ AlarmDue \/ ClearStatusDue
  \/ EditTimerFields \/ ClickStartTimer \/ ClickPauseTimer \/ ClickResetTimer \/ TickDue
  \/ ClickPrimary \/ ClickSecondary \/ RefreshDue \/ ClockAdvances
  \/ IntersectionEvent \/ GeoSuccess \/ GeoError \/ FetchSuccess \/ FetchFailure

Spec == Init /\ [][Next]_vars

\* the view router alone
NextRouter == DOMContentLoaded \/ DeviceTurns \/ OrientationEvent

SpecRouter == Init /\ [][NextRouter]_vars

\* one platform and one first reading, for the panels' own specifications
InitPortrait ==
  /\ Init
  /\ screenOrientation = "full"
  /\ orientation = "portrait-primary"
  /\ hidden = {}
  /\ geoSupported

\* the alarm panel, driven through its controls
NextAlarm ==
  \/ DOMContentLoaded
  \/ EditAlarmTime \/ ClickSetAlarm \/ ClickClearAlarm \/ AlarmDue \/ ClearStatusDue

SpecAlarm == InitPortrait /\ [][NextAlarm]_vars

\* the alarm panel, its handlers called directly
NextAlarmApi ==
  \/ DOMContentLoaded
  \/ EditAlarmTime \/ CallSetAlarm \/ CallClearAlarm \/ AlarmDue \/ ClearStatusDue

SpecAlarmApi == InitPortrait /\ [][NextAlarmApi]_vars

\* the countdown timer, driven through its controls
NextTimer ==
  \/ DOMContentLoaded
  \/ EditTimerFields \/ ClickStartTimer \/ ClickPauseTimer \/ ClickResetTimer \/ TickDue

SpecTimer == InitPortrait /\ [][NextTimer]_vars

\* the weather panel with the router that shows and hides it
NextWeather ==
  \/ DOMContentLoaded \/ DeviceTurns \/ OrientationEvent
  \/ IntersectionEvent \/ GeoSuccess \/ GeoError \/ FetchSuccess \/ FetchFailure

InitWeather == Init /\ screenOrientation = "full" /\ hidden = {}

SpecWeather == InitWeather /\ [][NextWeather]_vars

\* the three timing panels side by side, on one input each: alarm 07:30 set
\* at 07:00, a countdown of 2 s
EditAlarmOnce == TypeAlarmTime(<<"0", "7", ":", "3", "0">>)
ClickSetAlarmAtSeven == ~setAlarmBtnDisabled /\ SetAlarm(25200000)
EditTimerShort == TypeTimerFields(<<>>, <<"2">>)

NextPanels ==
  \/ DOMContentLoaded
  \/ EditAlarmOnce \/ ClickSetAlarmAtSeven \/ ClickClearAlarm \/ AlarmDue \/ ClearStatusDue
  \/ EditTimerShort \/ ClickStartTimer \/ ClickPauseTimer \/ ClickResetTimer \/ TickDue
  \/ ClickPrimary \/ ClickSecondary \/ RefreshDue

SpecPanels == InitPortrait /\ [][NextPanels]_vars

\* the router turning the panels on and off while each of them runs
NextPage ==
  \/ DOMContentLoaded \/ DeviceTurns \/ OrientationEvent
  \/ EditAlarmOnce \/ ClickSetAlarmAtSeven \/ AlarmDue
  \/ EditTimerShort \/ ClickStartTimer \/ TickDue
  \/ ClickPrimary \/ RefreshDue

SpecPage == InitPortrait /\ [][NextPage]_vars

\* formatTime on its own
FormatTimeCalls == \E ms \in FmtSamples : FormatTimeCall(ms)

NextFormat == DOMContentLoaded \/ FormatTimeCalls

SpecFormat == InitPortrait /\ [][NextFormat]_vars

\* the stopwatch, driven through its controls
NextStopwatch ==
  \/ DOMContentLoaded
  \/ ClickPrimary \/ ClickSecondary \/ RefreshDue \/ ClockAdvances

SpecStopwatch == InitPortrait /\ [][NextStopwatch]_vars

----------------------------------------------------------------------------
(* Properties *)

TickLive == \E t \in timers : t.fn = "tick"
AlarmLive == \E t \in timers : t.fn = "triggerAlarm"

\* the mapping table of section 4.1, written out
C1_Table ==
  [o \in Orientations |->
     IF o = "portrait-primary" THEN "alarm"
     ELSE IF o = "portrait-secondary" THEN "timer"
     ELSE IF o = "landscape-secondary" THEN "stopwatch"
     ELSE IF o = "landscape-primary" THEN "weather"
     ELSE "alarm"]

\* C1: once handleOrientationChange has run (at startup, and after every
\* notification), exactly one panel is visible: the one the table gives for
\* the reading the run saw, which right after the run is the current reading.
C1_ExactlyOnePanel ==
  pc = "ready" =>
    /\ routedFor \in Orientations
    /\ Panels \ hidden = {C1_Table[routedFor]}
    /\ Cardinality(Panels \ hidden) = 1
    /\ lastOp.op \in {"DOMContentLoaded", "handleOrientationChange"}
         => routedFor = orientation

C1_Witness ==
  /\ lastOp.op = "handleOrientationChange"
  /\ orientation = "other"
  /\ Panels \ hidden = {"alarm"}

\* the distance from `now` to the next occurrence of `target` (both times of
\* day in ms) strictly in the future: in 1 .. 24h
C2_Distance(target, now) == ((target - now - 1) % MsPerDay) + 1

C2_Target ==
  LET parts == SplitColon(alarmTimeInputValue)
  IN  ParseInt(parts[1]).val * MsPerHour + ParseInt(parts[2]).val * MsPerMinute

\* C2: the one-shot setAlarm schedules has a delay that is greater than 0, at
\* most 24h, and equal to the distance to the next occurrence of the target
\* strictly in the future (24h when the current time is the target).
C2_DelayStrictlyFuture ==
  (lastOp.op = "setAlarm" /\ alarmTimeInputValue # <<>>) =>
    \A t \in timers :
      t.id = alarmTimeoutId =>
        /\ t.delay > 0
        /\ t.delay <= MsPerDay
        /\ t.delay = C2_Distance(C2_Target, lastOp.now)

\* C3: in a run that no pause or reset has touched, remaining is the total
\* less the ticks so far; the tick stays scheduled and the panel unfinished
\* until the tick that makes the count equal the total, and from that tick
\* on no tick is scheduled, the sound loops and the finished flag is set.
C3_ExactTicks ==
  ~timerRun.disturbed =>
    /\ timerRun.total > 0
    /\ timerRun.ticks <= timerRun.total
    /\ secondsRemaining = timerRun.total - timerRun.ticks
    /\ timerRun.ticks < timerRun.total =>
         /\ Cardinality({t \in timers : t.fn = "tick"}) = 1
         /\ ~timerFinished
         /\ timerSound.paused
    /\ timerRun.ticks = timerRun.total =>
         /\ ~TickLive
         /\ timerFinished
         /\ ~timerSound.paused /\ timerSound.loop

C3_Witness ==
  /\ ~timerRun.disturbed
  /\ timerRun.total = 62
  /\ timerRun.ticks = 62
  /\ secondsRemaining = 0
  /\ timerFinished

\* C4: pauseTimer in the Finished state (remaining 0, tick cancelled) changes
\* neither remaining, nor isPaused, nor the pause label, and schedules nothing.
C4_PauseNoOpWhenFinished ==
  [][(PauseTimer /\ TimerPhase = "Finished" /\ secondsRemaining = 0 /\ ~TickLive)
       => UNCHANGED <<secondsRemaining, isPaused, pauseTimerBtnText, timers>>]_vars

\* C5: while the timer is paused remaining does not change and no tick is
\* scheduled; the step that resumes leaves remaining as the pause found it.
\* (The one step that changes remaining in a paused timer is a reset.)
C5_PausedFrozen ==
  [][isPaused =>
       /\ ~TickLive
       /\ secondsRemaining' = secondsRemaining \/ ResetTimer]_vars

C5_Witness ==
  /\ lastOp.op = "pauseTimer"
  /\ lastOp.from = "Paused"
  /\ ~isPaused
  /\ TickLive
  /\ timerRun.ticks > 0
  /\ secondsRemaining = timerRun.total - timerRun.ticks
  /\ secondsRemaining > 0

\* C6: right after resetTimer, whatever state it ran in, the timer holds the
\* Idle defaults: no tick scheduled, remaining 0, not paused, the sound
\* stopped and rewound, no finished flag, start enabled, pause and reset
\* disabled, the pause label 'Pause', the inputs enabled and empty.
C6_ResetToIdle ==
  lastOp.op = "resetTimer" =>
    /\ ~TickLive
    /\ timerIntervalId = 0
    /\ secondsRemaining = 0
    /\ timerDisplay = [minutes |-> 0, seconds |-> 0]
    /\ ~isPaused
    /\ timerSound.paused /\ timerSound.rewound
    /\ ~timerFinished
    /\ ~startTimerBtnDisabled
    /\ pauseTimerBtnDisabled /\ resetTimerBtnDisabled
    /\ pauseTimerBtnText = "Pause"
    /\ ~timerInputsDisabled
    /\ minutesInputValue = <<>> /\ secondsInputValue = <<>>

C6_Witness ==
  /\ lastOp.op = "resetTimer"
  /\ lastOp.from = "Finished"
  /\ timerRun.ticks = timerRun.total

\* the field pairs whose total is not positive, by the rule of section 4.3
\* (an empty or unparseable field counts as 0)
C7_NonPositiveFields ==
  \/ /\ minutesInputValue \in {<<>>, <<"x">>}
     /\ secondsInputValue \in {<<>>, <<"0">>}
  \/ /\ minutesInputValue = <<"-", "1">>
     /\ secondsInputValue \in {<<>>, <<"0">>, <<"2">>, <<"3", "s">>}

\* C7: startTimer on fields whose total is 0 or less changes nothing of the
\* timer (remaining, isPaused, display, every control) and schedules nothing.
C7_StartNonPositiveNoOp ==
  [][(StartTimer /\ C7_NonPositiveFields)
       => UNCHANGED <<timerVars, timers, nextId>>]_vars

C7_Witness ==
  /\ lastOp.op = "startTimer"
  /\ lastOp.from = "Idle"
  /\ minutesInputValue = <<"x">>
  /\ secondsInputValue = <<"0">>
  /\ ~TickLive
  /\ ~startTimerBtnDisabled

\* C8: right after clearAlarm run while Ringing, the alarm holds the Idle
\* defaults: the sound paused, rewound and not looping, no 'alarming' flag,
\* set and the time input enabled, clear disabled and labelled 'Clear
\* Alarm', and no alarm callback scheduled.
C8_ClearWhenRinging ==
  (lastOp.op = "clearAlarm" /\ lastOp.from = "Ringing") =>
    /\ alarmSound = [paused |-> TRUE, loop |-> FALSE, rewound |-> TRUE]
    /\ ~alarming
    /\ ~setAlarmBtnDisabled
    /\ ~alarmTimeInputDisabled
    /\ clearAlarmBtnDisabled
    /\ clearAlarmBtnText = "Clear Alarm"
    /\ ~AlarmLive
    /\ alarmTimeoutId = 0

C8_Witness ==
  /\ lastOp.op = "clearAlarm"
  /\ lastOp.from = "Ringing"
  /\ alarmStatus.text = "Alarm cleared."

\* C9: clearAlarm called while the alarm is Idle leaves the status message,
\* the time input, the controls and the scheduled callbacks as they were.
C9_ClearWhenIdleNoOp ==
  [][(ClearAlarm /\ AlarmPhase = "Idle")
       => UNCHANGED <<alarmStatus, alarmTimeInputValue, alarmTimeInputDisabled,
                      setAlarmBtnDisabled, clearAlarmBtnDisabled,
                      clearAlarmBtnText, timers>>]_vars

\* the labels of the lap entries, first entry first
C10_Labels(list) == [i \in 1 .. Len(list) |-> list[i].n]

\* C10: every step that changes the lap list either prepends one entry while
\* Running, labelled with the number of entries before it plus one, or
\* empties the list while Stopped and sets lapCounter to 1; after every step
\* lapCounter is the number of entries plus one and the labels count down
\* from the front to 1.
C10_LapDiscipline ==
  [][/\ lapsList' # lapsList =>
          \/ /\ isRunning /\ isRunning'
             /\ Len(lapsList') = Len(lapsList) + 1
             /\ Tail(lapsList') = lapsList
             /\ Head(lapsList').n = Len(lapsList) + 1
          \/ /\ ~isRunning /\ ~isRunning'
             /\ lapsList' = <<>>
             /\ lapCounter' = 1
     /\ lapCounter' = Len(lapsList') + 1
     /\ \A i \in 1 .. Len(lapsList') :
          lapsList'[i].n = Len(lapsList') + 1 - i]_vars

C10_Witness ==
  /\ lastOp.op = "handleSecondaryClick"
  /\ lastOp.from = "Running"
  /\ C10_Labels(lapsList) = <<3, 2, 1>>
  /\ elapsedTime > 0
  /\ lapCounter = 4

C12_AtMostOneSequence == sequencesStarted <= 1

\* C13: when the handler has run, also with screen.orientation absent, the
\* page is initialised: exactly one notification source is registered (the
\* 'orientationchange' event when screen.orientation is absent) and the
\* panels' controls are wired.
C13_FallbackRegistered ==
  pc # "loading" =>
    /\ pc = "ready"
    /\ listener \in {"change", "orientationchange"}
    /\ screenOrientation = "absent" => listener = "orientationchange"

\* the number a rendered field shows, and whether it is rendered with two
\* digits, or more when the number needs more
C14_Value(field) == DigitsPrefix(field, 1, 0)

C14_TwoDigits(field, n) ==
  /\ \A i \in 1 .. Len(field) : field[i] \in Digits
  /\ Len(field) = IF n < 100 THEN 2 ELSE IF n < 1000 THEN 3 ELSE 4
  /\ C14_Value(field) = n

\* C14: formatTime(ms) gives hours = floor(ms/3600000) (not wrapped at 24),
\* minutes = floor(ms/60000) mod 60, seconds = floor(ms/1000) mod 60 and
\* centiseconds = floor((ms mod 1000)/10), truncated, each with at least two
\* digits; 3,661,234 ms gives 01, 01, 01, 23.
C14_FormatTime ==
  lastOp.op = "formatTime" =>
    /\ C14_TwoDigits(fmtOut.hours, fmtIn \div 3600000)
    /\ C14_TwoDigits(fmtOut.minutes, (fmtIn \div 60000) % 60)
    /\ C14_TwoDigits(fmtOut.seconds, (fmtIn \div 1000) % 60)
    /\ C14_TwoDigits(fmtOut.milliseconds, (fmtIn % 1000) \div 10)
    /\ fmtIn = 3661234 =>
         fmtOut = [hours |-> <<"0", "1">>, minutes |-> <<"0", "1">>,
                   seconds |-> <<"0", "1">>, milliseconds |-> <<"2", "3">>]

C14_Witness ==
  /\ lastOp.op = "formatTime"
  /\ fmtIn = 360000000
  /\ fmtOut.hours = <<"1", "0", "0">>
  /\ fmtOut.milliseconds = <<"0", "0">>

\* C15: in every state the enabled controls lead to, secondsRemaining is not
\* negative, and neither is a field of the display.
C15_RemainingNonNegative ==
  /\ secondsRemaining >= 0
  /\ timerDisplay.minutes >= 0
  /\ timerDisplay.seconds >= 0

\* C16: alarmTimeoutId holds a handle exactly while an alarm is armed and
\* has not fired; once the alarm rings it is undefined.
C16_HandleIffArmed ==
  /\ (alarmTimeoutId # 0) <=> AlarmLive
  /\ alarming => alarmTimeoutId = 0

RefreshLive == \E t \in timers : t.fn = "updateStopwatchDisplay"

\* C17: no stale callback fires into a changed state.  The step that runs
\* clearAlarm leaves no triggerAlarm callback pending, and the step that runs
\* resetTimer leaves no tick interval pending (and the Pause/Resume control
\* disabled); from a state without a pending triggerAlarm, triggerAlarm does
\* not run and only setAlarm makes one pending; from a state without a tick
\* interval and with Pause/Resume disabled, tick does not run and only
\* startTimer creates an interval or enables Pause/Resume.
C17_NoStaleCallback ==
  [][ /\ lastOp'.op = "clearAlarm" => ~AlarmLive'
      /\ lastOp'.op = "resetTimer" => (~TickLive' /\ pauseTimerBtnDisabled')
      /\ ~AlarmLive =>
            /\ lastOp'.op # "triggerAlarm"
            /\ AlarmLive' => lastOp'.op = "setAlarm"
      /\ (~TickLive /\ pauseTimerBtnDisabled) =>
            /\ lastOp'.op # "tick"
            /\ (TickLive' \/ ~pauseTimerBtnDisabled') => lastOp'.op = "startTimer"
    ]_vars

\* an armed alarm has just been cleared, after a countdown that had ticked
\* was reset
C17_Witness ==
  /\ lastOp.op = "clearAlarm" /\ lastOp.from = "Armed"
  /\ timerRun.ticks > 0 /\ resetTimerBtnDisabled /\ timerIntervalId = 0

LiveOf(ts, fn) == {t \in ts : t.fn = fn}

\* C18: at any time at most one triggerAlarm callback, at most one tick
\* interval and at most one stopwatch refresh interval is pending, and when
\* alarmTimeoutId, timerIntervalId or stopwatchIntervalId is assigned a new
\* handle, the handle it held before is not pending any more.
C18_OneHandleEach ==
  [][ /\ \A fn \in {"triggerAlarm", "tick", "updateStopwatchDisplay"} :
            /\ Cardinality(LiveOf(timers, fn)) <= 1
            /\ Cardinality(LiveOf(timers', fn)) <= 1
      /\ alarmTimeoutId' \notin {alarmTimeoutId, 0} =>
            ~\E t \in timers' : t.id = alarmTimeoutId
      /\ timerIntervalId' \notin {timerIntervalId, 0} =>
            ~\E t \in timers' : t.id = timerIntervalId
      /\ stopwatchIntervalId' \notin {stopwatchIntervalId, 0} =>
            ~\E t \in timers' : t.id = stopwatchIntervalId
    ]_vars

\* the countdown has just been resumed on a second handle while the alarm is
\* armed and the stopwatch runs
C18_Witness ==
  /\ lastOp.op = "pauseTimer" /\ TickLive /\ timerIntervalId >= 2
  /\ AlarmLive /\ RefreshLive

\* C19: once data-loaded is true it stays true and no further weather fetch
\* request is issued.
C19_LoadedFinal ==
  [][weatherLoaded => (weatherLoaded' /\ fetchPending' <= fetchPending)]_vars

\* C20: a step that runs handleOrientationChange for an orientation
\* notification leaves the host's timers and clock and every variable of the
\* alarm, the countdown timer and the stopwatch as they were.
C20_RoutingFrame ==
  [][lastOp'.op = "handleOrientationChange" =>
       UNCHANGED <<hostVars, alarmVars, timerVars, swVars>>]_vars

\* the alarm has just fired while its panel is hidden, with the countdown
\* ticking on its hidden panel and the stopwatch running
C20_Witness ==
  /\ lastOp.op = "triggerAlarm" /\ "alarm" \in hidden
  /\ TickLive /\ "timer" \in hidden /\ timerRun.ticks > 0
  /\ isRunning /\ RefreshLive

============================================================================
